---- MODULE Spec2Model ----
(***************************************************************************)
(* Model of the JARVIS web front end (src/app.py): the shared              *)
(* AssistantState, the two background loops (active listening, wake word), *)
(* the thread start/stop helpers, and the Flask request handlers that      *)
(* drive them (/api/listen, /api/command, /api/clear-history).             *)
(*                                                                         *)
(* Threads are modelled at the granularity of the statements that touch    *)
(* shared state: every such statement is one step, so a thread switch may  *)
(* fall between any two of them, as it may between two bytecodes.          *)
(***************************************************************************)
EXTENDS Integers, Sequences, FiniteSets, TLC

\* ------------------------------------------------------------------ bounds
\* Concurrent Flask request-handler threads (app.run(threaded=True)).
NumHandlers == 2
\* Thread objects of _active_mode_loop that can exist at once.
MaxLoops == 2
\* Thread objects of _wake_word_loop that can exist at once.
MaxWake == 1
\* Chat entries the full specification lets accumulate before it stops
\* submitting commands (the history specification runs to HistoryLimit).
MaxChat == 1
\* Ticks of the wall clock (seconds) within one run.
MaxClock == 1

\* ------------------------------------------------------- program constants
\* add_chat_message: "if len(self.chat_history) > 100"
HistoryLimit == 100

Handlers == 1..NumHandlers
ActiveIds == 1..MaxLoops
WakeIds == 1..MaxWake
\* A wake-word thread w calls _start_active_mode_background as caller
\* NumHandlers + w; a request handler h calls it as caller h.
WakeCaller(w) == NumHandlers + w
Callers == 1..(NumHandlers + MaxWake)
None == 0

\* ------------------------------------------------------------- utterances
\* An utterance is a sequence of tokens: words, and " " for one blank.
\* Upper-case words stand for text that lower() changes.
Lower(tok) ==
    CASE tok = "GOODBYE" -> "goodbye"
      [] tok = "OPEN" -> "open"
      [] tok = "CLOSE" -> "close"
      [] OTHER -> tok

LowerAll(s) == [i \in 1..Len(s) |-> Lower(s[i])]

RECURSIVE LStrip(_)
LStrip(s) == IF s # <<>> /\ Head(s) = " " THEN LStrip(Tail(s)) ELSE s

RECURSIVE RStrip(_)
RStrip(s) ==
    IF s # <<>> /\ s[Len(s)] = " " THEN RStrip(SubSeq(s, 1, Len(s) - 1)) ELSE s

\* str.strip()
Strip(s) == RStrip(LStrip(s))

\* "p in s" for strings: p occurs as a contiguous run of s.
Contains(s, p) ==
    \E i \in 0..(Len(s) - Len(p)) : SubSeq(s, i + 1, i + Len(p)) = p

\* s.startswith(p)
StartsWith(s, p) == Len(s) >= Len(p) /\ SubSeq(s, 1, Len(p)) = p

\* s.replace(p, "", 1): the first occurrence of p removed.
ReplaceFirst(s, p) ==
    IF ~Contains(s, p) THEN s
    ELSE LET i == CHOOSE k \in 0..(Len(s) - Len(p)) :
                      /\ SubSeq(s, k + 1, k + Len(p)) = p
                      /\ \A j \in 0..(k - 1) : SubSeq(s, j + 1, j + Len(p)) # p
         IN  SubSeq(s, 1, i) \o SubSeq(s, i + Len(p) + 1, Len(s))

\* s.replace(p, ""): every occurrence of p removed, left to right.
RECURSIVE ReplaceAll(_, _)
ReplaceAll(s, p) ==
    IF p = <<>> \/ ~Contains(s, p) THEN s
    ELSE LET i == CHOOSE k \in 0..(Len(s) - Len(p)) :
                      /\ SubSeq(s, k + 1, k + Len(p)) = p
                      /\ \A j \in 0..(k - 1) : SubSeq(s, j + 1, j + Len(p)) # p
         IN  SubSeq(s, 1, i) \o ReplaceAll(SubSeq(s, i + Len(p) + 1, Len(s)), p)

\* AssistantState.EXIT_COMMANDS
EXIT_COMMANDS == {<<"shutdown">>, <<"terminate">>, <<"exit">>, <<"goodbye">>}
\* AssistantState.WAKE_WORDS
WAKE_WORDS == {<<"hey">>}

IsExit(cmd) == \E e \in EXIT_COMMANDS : Contains(cmd, e)

\* --------------------------------------------------------- classification
Phrase_open_file_manager == <<"open", " ", "file", " ", "manager">>
Phrase_open_recycle_bin == <<"open", " ", "recycle", " ", "bin">>
Phrase_open_google == <<"open", " ", "google">>
Phrase_open_youtube == <<"open", " ", "youtube">>
Phrase_on_youtube == <<"on", " ", "youtube">>

\* The build-intent phrases of _handle_parsed_command.
VoiceBuildPhrases ==
    { <<"i", " ", "want", " ", "to", " ", "build">>,
      <<"i", " ", "want", " ", "to", " ", "make">>,
      <<"i", " ", "went", " ", "to", " ", "build">>,
      <<"i", " ", "need", " ", "to", " ", "build">>,
      <<"create", " ", "a", " ", "login", " ", "page">>,
      <<"make", " ", "a", " ", "login", " ", "page">>,
      <<"create", " ", "a">>, <<"make", " ", "a">> }

\* The build-intent phrases of handle_command.
TextBuildPhrases ==
    { <<"i", " ", "want", " ", "to", " ", "build">>,
      <<"i", " ", "want", " ", "to", " ", "make">>,
      <<"i", " ", "went", " ", "to", " ", "build">>,
      <<"i", " ", "need", " ", "to", " ", "build">>,
      <<"create", " ", "a">>, <<"make", " ", "a">> }

\* assistant_core.handle_keyboard_commands is not part of the sources: the
\* specification describes it as a fixed table of phrase -> shortcut
\* mappings, returning whether it handled the command.
KeyboardPhrases == { <<"select", " ", "all">>, <<"copy">> }
HandleKeyboard(cmd) == \E p \in KeyboardPhrases : Contains(cmd, p)

\* song = cmd.replace("play", "").replace("on youtube", "").strip()
SongOf(cmd) == Strip(ReplaceAll(ReplaceAll(cmd, <<"play">>), Phrase_on_youtube))

\* app_name = cmd.replace("close", "", 1).strip()
AppNameOf(cmd) == Strip(ReplaceFirst(cmd, <<"close">>))

\* The branch _handle_parsed_command takes for cmd = command.strip().lower().
VoiceRule(cmd) ==
    CASE cmd = <<>> -> "empty"
      [] IsExit(cmd) -> "exit"
      [] Contains(cmd, <<"wait">>) \/ Contains(cmd, <<"hold">>) -> "standby"
      [] Contains(cmd, Phrase_open_file_manager) -> "file_manager"
      [] Contains(cmd, Phrase_open_recycle_bin) -> "recycle_bin"
      [] \E p \in VoiceBuildPhrases : Contains(cmd, p) -> "dev_build"
      [] Contains(cmd, Phrase_open_google) -> "open_google"
      [] Contains(cmd, Phrase_open_youtube) -> "open_youtube"
      [] Contains(cmd, <<"play">>) /\ Contains(cmd, <<"youtube">>) -> "play"
      [] StartsWith(cmd, <<"close", " ">>) -> "close"
      [] HandleKeyboard(cmd) -> "keyboard"
      [] OTHER -> "fallback"

\* The branch handle_command takes for command = text.lower().strip().
TextRule(cmd) ==
    CASE cmd = <<>> -> "empty"
      [] IsExit(cmd) -> "exit"
      [] Contains(cmd, Phrase_open_file_manager) -> "file_manager"
      [] Contains(cmd, Phrase_open_recycle_bin) -> "recycle_bin"
      [] Contains(cmd, Phrase_open_google) -> "open_google"
      [] Contains(cmd, Phrase_open_youtube) -> "open_youtube"
      [] Contains(cmd, <<"play">>) /\ Contains(cmd, <<"youtube">>) -> "play"
      [] StartsWith(cmd, <<"close", " ">>) /\ AppNameOf(cmd) # <<>> -> "close"
      [] HandleKeyboard(cmd) -> "keyboard"
      [] \E p \in TextBuildPhrases : Contains(cmd, p) -> "dev_build"
      [] Contains(cmd, <<"time">>) \/ Contains(cmd, <<"what", " ", "time">>) -> "time"
      [] OTHER -> "fallback"

\* ---------------------------------------------------------------- state
VARIABLES
    SPEECH_AVAILABLE,     \* import speech_recognition succeeded
    VOSK_AVAILABLE,       \* import vosk, sounddevice succeeded
    is_listening,         \* state.is_listening
    is_wake_word_active,  \* state.is_wake_word_active
    is_processing,        \* state.is_processing
    chat_history,         \* state.chat_history
    system_status,        \* state.system_status
    active_thread,        \* state._active_thread (None or a thread)
    wake_thread,          \* state._wake_thread (None or a thread)
    stop_active,          \* state._stop_active.is_set()
    stop_wake,            \* state._stop_wake.is_set()
    clock,                \* datetime.datetime.now(), in seconds
    lpc,                  \* each _active_mode_loop thread's position
    wpc,                  \* each _wake_word_loop thread's position
    spc,                  \* each caller's position in _start_active_mode_background
    st,                   \* its local "t"
    hpc,                  \* each request handler's position
    hcmd,                 \* its local "command"
    hres,                 \* the response it is about to return
    ht,                   \* local "t" of _start_wake_word_background
    starts_in_row,        \* history, kept by SpecSeq alone: the start_continuous
                          \* requests answered since the last stop_continuous
                          \* was (counted up to two)
    started_offline,      \* history: the loop threads whose t.start() ran
                          \* while system_status was "OFFLINE"
    last_heard            \* history, kept by SpecDispatch alone: the command
                          \* the active loop dispatched last and how the
                          \* dispatch went

vars == << SPEECH_AVAILABLE, VOSK_AVAILABLE, is_listening, is_wake_word_active,
           is_processing, chat_history, system_status, active_thread,
           wake_thread, stop_active, stop_wake, clock, lpc, wpc,
           spc, st, hpc, hcmd, hres, ht, starts_in_row, started_offline,
           last_heard >>

avail == << SPEECH_AVAILABLE, VOSK_AVAILABLE >>
flags == << is_listening, is_wake_word_active >>
tokens == << stop_active, stop_wake >>
session == << is_processing, chat_history, system_status >>
startvars == << spc, st >>
handlervars == << hpc, hcmd, hres, ht >>

\* ------------------------------------------------------------- adapters
\* One call of an external capability (assistant_core, subprocess, the
\* speech backend); any of them may raise.
Call(fn, arg) == [fn |-> fn, arg |-> arg]
Speak(text) == Call("speak", <<text>>)
Msg(text, arg) == [text |-> text, arg |-> arg]
NoMsg == Msg("", <<>>)

\* Running the calls cs in order: all of them return, or the k-th raises
\* and the later ones are never made.
Attempts(cs) ==
    { [calls |-> cs, raised |-> FALSE] } \cup
    { [calls |-> SubSeq(cs, 1, k), raised |-> TRUE] : k \in 1..Len(cs) }

\* What the user may answer to a follow-up prompt.
FollowUps == { <<"thunder">> }

\* listen_once(prompt): what it calls, whether it raises, the text it returns.
ListenOnce(prompt) ==
    IF ~SPEECH_AVAILABLE
    THEN { [calls |-> <<>>, raised |-> FALSE, text |-> <<>>] }
    ELSE LET first == Attempts(<< Speak(prompt) >>)
             heard == { [calls |-> a.calls \o << Call("recognize", <<>>) >>,
                         raised |-> FALSE, text |-> q] :
                        a \in { x \in first : ~x.raised }, q \in FollowUps }
             missed == { [calls |-> a.calls \o << Call("recognize", <<>>) >> \o b.calls,
                          raised |-> b.raised, text |-> <<>>] :
                         a \in { x \in first : ~x.raised },
                         b \in Attempts(<< Speak("No input received, sir.") >>)
                               \cup Attempts(<< Speak("I did not understand, sir.") >>)
                               \cup Attempts(<< Speak("Network error with speech service, sir.") >>) }
         IN  { [calls |-> a.calls, raised |-> TRUE, text |-> <<>>] :
               a \in { x \in first : x.raised } } \cup heard \cup missed

\* ------------------------------------------------------ voice dispatch
Outcome(rule, a, handled, offline) ==
    [rule |-> rule, calls |-> a.calls, raised |-> a.raised,
     handled |-> handled /\ ~a.raised, offline |-> offline /\ ~a.raised]

\* The "open recycle bin" branch: Popen and the announcement inside try,
\* the apology in the except clause (which may raise in its turn).
RecycleBinVoice ==
    LET tried == Attempts(<< Call("Popen", <<"explorer shell:RecycleBinFolder">>),
                             Speak("Opening Recycle Bin, sir.") >>)
    IN  { a \in tried : ~a.raised } \cup
        { [calls |-> a.calls \o b.calls, raised |-> b.raised] :
          a \in { x \in tried : x.raised },
          b \in Attempts(<< Speak("I could not open the Recycle Bin, sir.") >>) }

\* The "play ... youtube" branch: the song named in the command, or the one
\* asked for with listen_once.
PlayVoice(cmd) ==
    IF SongOf(cmd) # <<>>
    THEN Attempts(<< Call("play_song_on_youtube", SongOf(cmd)) >>)
    ELSE LET asked == ListenOnce("Which song, sir?")
         IN  { [calls |-> l.calls, raised |-> l.raised] :
               l \in { x \in asked : x.raised \/ x.text = <<>> } } \cup
             UNION { { [calls |-> l.calls \o a.calls, raised |-> a.raised] :
                       a \in Attempts(<< Call("play_song_on_youtube", l.text) >>) } :
                     l \in { x \in asked : ~x.raised /\ x.text # <<>> } }

\* _handle_parsed_command(command): every way the call can go. handled is
\* its return value, offline whether it set system_status to "OFFLINE",
\* raised whether an adapter's exception left it.
HandleParsedCommand(command) ==
    LET cmd == LowerAll(Strip(command))
        rule == VoiceRule(cmd)
        kbd == Attempts(<< Call("handle_keyboard_commands", cmd) >>)
    IN  CASE rule = "empty" ->
               { Outcome(rule, [calls |-> <<>>, raised |-> FALSE], TRUE, FALSE) }
          [] rule = "exit" ->
               { Outcome(rule, a, TRUE, TRUE) :
                 a \in Attempts(<< Speak("Shutting down. Goodbye, sir.") >>) }
          [] rule = "standby" ->
               { Outcome(rule, a, TRUE, FALSE) :
                 a \in Attempts(<< Speak("Standing by, sir.") >>) }
          [] rule = "file_manager" ->
               { Outcome(rule, a, TRUE, FALSE) :
                 a \in Attempts(<< Call("open_file_manager", <<>>) >>) }
          [] rule = "recycle_bin" ->
               { Outcome(rule, a, TRUE, FALSE) : a \in RecycleBinVoice }
          [] rule = "dev_build" ->
               { Outcome(rule, [calls |-> << Call("ai_to_ai_problem_solver", cmd) >> \o a.calls,
                                raised |-> a.raised], TRUE, FALSE) :
                 a \in Attempts(<< Speak("I'll help you with that, sir. Opening the development environment.") >>) }
          [] rule = "open_google" ->
               { Outcome(rule, a, TRUE, FALSE) :
                 a \in Attempts(<< Call("open_browser_and_search", <<"google">>) >>) }
          [] rule = "open_youtube" ->
               { Outcome(rule, a, TRUE, FALSE) :
                 a \in Attempts(<< Call("open_browser_and_search", <<"youtube">>) >>) }
          [] rule = "play" ->
               { Outcome(rule, a, TRUE, FALSE) : a \in PlayVoice(cmd) }
          [] rule = "close" ->
               { Outcome(rule, a, TRUE, FALSE) :
                 a \in IF AppNameOf(cmd) # <<>>
                       THEN Attempts(<< Call("close_window", AppNameOf(cmd)) >>)
                       ELSE Attempts(<< Speak("Please tell me which application to close, sir.") >>) }
          [] OTHER ->
               { Outcome(rule, a, HandleKeyboard(cmd), FALSE) : a \in kbd }

\* One pass of the try block of _active_mode_loop on a recognised command:
\* _handle_parsed_command, then ask_billion and speak when it returned False.
VoiceDispatch(command) ==
    LET first == HandleParsedCommand(command)
    IN  { o \in first : o.raised \/ o.handled } \cup
        { [o EXCEPT !.calls = o.calls \o a.calls, !.raised = a.raised] :
          o \in { x \in first : ~x.raised /\ ~x.handled },
          a \in Attempts(<< Call("ask_billion", command), Speak("<reply>") >>) }

\* What is on record about the active loop's dispatches before the first.
NoneHeard ==
    [command |-> <<>>,
     outcome |-> Outcome("", [calls |-> <<>>, raised |-> FALSE], FALSE, FALSE)]

\* ------------------------------------------------------------ threads
Resp(success, text, arg, rule, calls) ==
    [success |-> success, response |-> Msg(text, arg), rule |-> rule, calls |-> calls]
NoResp == Resp(FALSE, "", <<>>, "", <<>>)

\* Thread.is_alive(): started and not yet finished.
ActiveAlive(t) == t # None /\ lpc[t] \notin {"unborn", "created", "dead"}
WakeAlive(w) == w # None /\ wpc[w] \notin {"unborn", "created", "dead"}

\* A finished thread object stays only while state._active_thread (or
\* state._wake_thread) still refers to it; otherwise its slot is free again.
EndedLoop(t) == IF active_thread = t THEN "dead" ELSE "unborn"
EndedWake(w) == IF wake_thread = w THEN "dead" ELSE "unborn"

FreeLoops == { t \in ActiveIds : lpc[t] = "unborn" }
FreeWakes == { w \in WakeIds : wpc[w] = "unborn" }
Lowest(S) == CHOOSE x \in S : \A y \in S : x <= y

Init ==
    /\ SPEECH_AVAILABLE \in BOOLEAN
    /\ VOSK_AVAILABLE \in BOOLEAN
    /\ is_listening = FALSE
    /\ is_wake_word_active = FALSE
    /\ is_processing = FALSE
    /\ chat_history = <<>>
    /\ system_status = "ONLINE"
    /\ active_thread = None
    /\ wake_thread = None
    /\ stop_active = FALSE
    /\ stop_wake = FALSE
    /\ clock = 0
    /\ lpc = [t \in ActiveIds |-> "unborn"]
    /\ wpc = [w \in WakeIds |-> "unborn"]
    /\ spc = [c \in Callers |-> "none"]
    /\ st = [c \in Callers |-> None]
    /\ hpc = [h \in Handlers |-> "idle"]
    /\ hcmd = [h \in Handlers |-> <<>>]
    /\ hres = [h \in Handlers |-> NoResp]
    /\ ht = [h \in Handlers |-> None]
    /\ starts_in_row = 0
    /\ started_offline = {}
    /\ last_heard = NoneHeard

\* ------------------------------------- _start_active_mode_background
\* The caller's continuation once _start_active_mode_background returns:
\* handle_listen builds its response, _wake_word_loop goes on to sleep.
StartReturns(c) ==
    IF c \in Handlers
    THEN /\ hpc' = [hpc EXCEPT ![c] = "done"]
         /\ hres' = [hres EXCEPT ![c] =
                Resp(TRUE, "Continuous listening started", <<>>, "", <<>>)]
         /\ UNCHANGED wpc
    ELSE /\ wpc' = [wpc EXCEPT ![c - NumHandlers] = "sleep"]
         /\ UNCHANGED << hpc, hres >>

\* A variant of the test below that never returns early: the start goes on
\* whether or not a loop is alive.
StartActive_Check_Unguarded(c) ==
    /\ spc[c] = "check"
    /\ spc' = [spc EXCEPT ![c] = "clear"]
    /\ UNCHANGED << hpc, hres, wpc >>
    /\ UNCHANGED << avail, starts_in_row, last_heard, flags, tokens, session, active_thread, wake_thread,
                    clock, lpc, st, hcmd, ht >>
    /\ UNCHANGED started_offline

\* A variant of the test below that looks at the mode flag is_listening in
\* place of the thread's liveness.
StartActive_Check_ByFlag(c) ==
    /\ spc[c] = "check"
    /\ IF is_listening
       THEN /\ spc' = [spc EXCEPT ![c] = "none"]
            /\ StartReturns(c)
       ELSE /\ spc' = [spc EXCEPT ![c] = "clear"]
            /\ UNCHANGED << hpc, hres, wpc >>
    /\ UNCHANGED << avail, starts_in_row, last_heard, flags, tokens, session, active_thread, wake_thread,
                    clock, lpc, st, hcmd, ht >>
    /\ UNCHANGED started_offline

\* if state._active_thread and state._active_thread.is_alive(): return
StartActive_Check(c) ==
    /\ spc[c] = "check"
    /\ IF ActiveAlive(active_thread)
       THEN /\ spc' = [spc EXCEPT ![c] = "none"]
            /\ StartReturns(c)
       ELSE /\ spc' = [spc EXCEPT ![c] = "clear"]
            /\ UNCHANGED << hpc, hres, wpc >>
    /\ UNCHANGED << avail, starts_in_row, last_heard, flags, tokens, session, active_thread, wake_thread,
                    clock, lpc, st, hcmd, ht >>
    /\ UNCHANGED started_offline

\* state._stop_active.clear()
StartActive_Clear(c) ==
    /\ spc[c] = "clear"
    /\ stop_active' = FALSE
    /\ spc' = [spc EXCEPT ![c] = "flag"]
    /\ UNCHANGED << avail, starts_in_row, last_heard, flags, stop_wake, session, active_thread, wake_thread,
                    clock, lpc, wpc, st, handlervars >>
    /\ UNCHANGED started_offline

\* state.is_listening = True
StartActive_Flag(c) ==
    /\ spc[c] = "flag"
    /\ is_listening' = TRUE
    /\ spc' = [spc EXCEPT ![c] = "create"]
    /\ UNCHANGED << avail, starts_in_row, last_heard, is_wake_word_active, tokens, session, active_thread,
                    wake_thread, clock, lpc, wpc, st, handlervars >>
    /\ UNCHANGED started_offline

\* t = threading.Thread(...); state._active_thread = t
StartActive_Create(c) ==
    /\ spc[c] = "create"
    /\ FreeLoops # {}
    /\ LET t == Lowest(FreeLoops)
       IN  /\ lpc' = [x \in ActiveIds |->
                        IF x = t THEN "created"
                        ELSE IF x = active_thread /\ lpc[x] = "dead" THEN "unborn"
                        ELSE lpc[x]]
           /\ active_thread' = t
           /\ st' = [st EXCEPT ![c] = t]
    /\ spc' = [spc EXCEPT ![c] = "start"]
    /\ UNCHANGED << avail, starts_in_row, last_heard, flags, tokens, session, wake_thread, clock, wpc,
                    handlervars >>
    /\ UNCHANGED started_offline

\* t.start()
StartActive_Start(c) ==
    /\ spc[c] = "start"
    /\ lpc' = [lpc EXCEPT ![st[c]] = "entry"]
    /\ started_offline' = IF system_status = "OFFLINE"
                          THEN started_offline \cup {st[c]}
                          ELSE started_offline
    /\ st' = [st EXCEPT ![c] = None]
    /\ spc' = [spc EXCEPT ![c] = "none"]
    /\ StartReturns(c)
    /\ UNCHANGED << avail, starts_in_row, last_heard, flags, tokens, session, active_thread, wake_thread,
                    clock, hcmd, ht >>

\* --------------------------------------------------- _active_mode_loop
\* The thread leaves _active_mode_loop (return, break, loop test false, or
\* an exception nothing catches).
LoopEnds(t) ==
    /\ lpc' = [lpc EXCEPT ![t] = EndedLoop(t)]
    /\ started_offline' = started_offline \ {t}

\* The thread goes on to position pc.
LoopGoes(t, pc) ==
    /\ lpc' = [lpc EXCEPT ![t] = pc]
    /\ UNCHANGED started_offline

\* if not SPEECH_AVAILABLE: speak(...); return
\* r = sr.Recognizer()
Loop_Entry(t) ==
    /\ lpc[t] = "entry"
    /\ IF SPEECH_AVAILABLE
       THEN LoopGoes(t, "while")
       ELSE LoopEnds(t)
    /\ UNCHANGED << avail, starts_in_row, last_heard, flags, tokens, session, active_thread, wake_thread,
                    clock, wpc, startvars, handlervars >>

\* A variant of the loop test below that does not look at the token.
Loop_While_Deaf(t) ==
    /\ lpc[t] = "while"
    /\ LoopGoes(t, "listen")
    /\ UNCHANGED << avail, starts_in_row, last_heard, flags, tokens, session, active_thread,
                    wake_thread, clock, wpc, startvars, handlervars >>

\* while not state._stop_active.is_set():
Loop_While(t) ==
    /\ lpc[t] = "while"
    /\ IF stop_active
       THEN LoopEnds(t)
       ELSE LoopGoes(t, "listen")
    /\ UNCHANGED << avail, starts_in_row, last_heard, flags, tokens, session, active_thread, wake_thread,
                    clock, wpc, startvars, handlervars >>

\* audio = r.listen(...); command = r.recognize_google(audio).lower()
\* if _handle_parsed_command(command): ... else: ask_billion, speak.
\* u is what was said. The blocking recognition and the adapter calls touch
\* no shared state, so the step is the moment the dispatch completes. An
\* exception raised by an adapter is caught by none of the three except
\* clauses and leaves the loop.
Loop_Dispatch(t, u) ==
    /\ lpc[t] = "listen"
    /\ \E o \in VoiceDispatch(LowerAll(u)) :
          /\ system_status' = IF o.offline THEN "OFFLINE" ELSE system_status
          /\ IF o.raised
             THEN LoopGoes(t, "raised")
             ELSE LoopGoes(t, IF o.handled THEN "handled" ELSE "while")
    /\ UNCHANGED << avail, starts_in_row, last_heard, flags, tokens, is_processing, chat_history,
                    active_thread, wake_thread, clock, wpc, startvars, handlervars >>

\* The same step, on record: command is what recognize_google(audio).lower()
\* gave, outcome the way the dispatch went.
Loop_Dispatch_Recorded(t, u) ==
    /\ lpc[t] = "listen"
    /\ \E o \in VoiceDispatch(LowerAll(u)) :
          /\ system_status' = IF o.offline THEN "OFFLINE" ELSE system_status
          /\ last_heard' = [command |-> LowerAll(u), outcome |-> o]
          /\ IF o.raised
             THEN LoopGoes(t, "raised")
             ELSE LoopGoes(t, IF o.handled THEN "handled" ELSE "while")
    /\ UNCHANGED << avail, starts_in_row, flags, tokens, is_processing, chat_history,
                    active_thread, wake_thread, clock, wpc, startvars, handlervars >>

\* After _handle_parsed_command returned True:
\* if state.system_status != "ONLINE": state._stop_active.set(); break
\* continue
Loop_Handled(t) ==
    /\ lpc[t] = "handled"
    /\ IF system_status # "ONLINE"
       THEN /\ stop_active' = TRUE
            /\ LoopEnds(t)
       ELSE /\ LoopGoes(t, "while")
            /\ UNCHANGED stop_active
    /\ UNCHANGED << avail, starts_in_row, last_heard, flags, stop_wake, session, active_thread, wake_thread,
                    clock, wpc, startvars, handlervars >>

\* except sr.WaitTimeoutError: speak(...); break
Loop_Timeout(t) ==
    /\ lpc[t] = "listen"
    /\ LoopEnds(t)
    /\ UNCHANGED << avail, starts_in_row, last_heard, flags, tokens, session, active_thread, wake_thread,
                    clock, wpc, startvars, handlervars >>

\* except sr.UnknownValueError: speak(...)
\* (an exception speak raises inside the except clause is caught by nothing)
Loop_Unknown(t, speakRaises) ==
    /\ lpc[t] = "listen"
    /\ IF speakRaises
       THEN LoopGoes(t, "raised_in_except")
       ELSE LoopGoes(t, "while")
    /\ UNCHANGED << avail, starts_in_row, last_heard, flags, tokens, session, active_thread, wake_thread,
                    clock, wpc, startvars, handlervars >>

\* except sr.RequestError: speak(...); break
Loop_RequestError(t) ==
    /\ lpc[t] = "listen"
    /\ LoopEnds(t)
    /\ UNCHANGED << avail, starts_in_row, last_heard, flags, tokens, session, active_thread, wake_thread,
                    clock, wpc, startvars, handlervars >>

\* An exception raised in the try block that no except clause of
\* _active_mode_loop matches, or raised inside an except clause, unwinds the
\* function and ends the thread.
Loop_Uncaught(t) ==
    /\ lpc[t] \in {"raised", "raised_in_except"}
    /\ LoopEnds(t)
    /\ UNCHANGED << avail, starts_in_row, last_heard, flags, tokens, session, active_thread, wake_thread,
                    clock, wpc, startvars, handlervars >>

\* ------------------------------------------------------ _wake_word_loop
\* What the recogniser may report as a finalised utterance.
WakeSpoken == { <<>>, <<"hello">>, <<"hey", " ", "jarvis">> }

HasWakeWord(spoken) == \E w \in WAKE_WORDS : Contains(spoken, w)

\* model = Model(vosk_model_path) succeeded; the stream is opened.
Wake_Loaded(w) ==
    /\ wpc[w] = "entry"
    /\ wpc' = [wpc EXCEPT ![w] = IF VOSK_AVAILABLE THEN "while" ELSE EndedWake(w)]
    /\ UNCHANGED << avail, starts_in_row, last_heard, flags, tokens, session, active_thread, wake_thread,
                    clock, lpc, startvars, handlervars >>
    /\ UNCHANGED started_offline

\* except Exception: ... "Failed to load the wake word model"; return
Wake_LoadFailed(w) ==
    /\ wpc[w] = "entry"
    /\ wpc' = [wpc EXCEPT ![w] = EndedWake(w)]
    /\ UNCHANGED << avail, starts_in_row, last_heard, flags, tokens, session, active_thread, wake_thread,
                    clock, lpc, startvars, handlervars >>
    /\ UNCHANGED started_offline

\* while not state._stop_wake.is_set():
Wake_While(w) ==
    /\ wpc[w] = "while"
    /\ wpc' = [wpc EXCEPT ![w] = IF stop_wake THEN EndedWake(w) ELSE "get"]
    /\ UNCHANGED << avail, starts_in_row, last_heard, flags, tokens, session, active_thread, wake_thread,
                    clock, lpc, startvars, handlervars >>
    /\ UNCHANGED started_offline

\* data = q.get(); ... spoken = result.get("text", "").lower()
\* On a wake word: speak("Yes, sir."), then _start_active_mode_background().
Wake_Heard(w, spoken) ==
    /\ wpc[w] = "get"
    /\ IF HasWakeWord(LowerAll(spoken))
       THEN /\ wpc' = [wpc EXCEPT ![w] = "starting"]
            /\ spc' = [spc EXCEPT ![WakeCaller(w)] = "check"]
       ELSE /\ wpc' = [wpc EXCEPT ![w] = "while"]
            /\ UNCHANGED spc
    /\ UNCHANGED << avail, starts_in_row, last_heard, flags, tokens, session, active_thread, wake_thread,
                    clock, lpc, st, handlervars >>
    /\ UNCHANGED started_offline

\* An exception inside the with block (the stream, or speak("Yes, sir.")):
\* except Exception: ... "Wake word stream failed"; the thread ends.
Wake_StreamFailed(w) ==
    /\ wpc[w] = "get"
    /\ wpc' = [wpc EXCEPT ![w] = EndedWake(w)]
    /\ UNCHANGED << avail, starts_in_row, last_heard, flags, tokens, session, active_thread, wake_thread,
                    clock, lpc, startvars, handlervars >>
    /\ UNCHANGED started_offline

\* time.sleep(2)
Wake_Sleep(w) ==
    /\ wpc[w] = "sleep"
    /\ wpc' = [wpc EXCEPT ![w] = "while"]
    /\ UNCHANGED << avail, starts_in_row, last_heard, flags, tokens, session, active_thread, wake_thread,
                    clock, lpc, startvars, handlervars >>
    /\ UNCHANGED started_offline

\* -------------------------------------------------- /api/listen handler
Done(h, resp) ==
    /\ hpc' = [hpc EXCEPT ![h] = "done"]
    /\ hres' = [hres EXCEPT ![h] = resp]

\* listen_type == 'start_continuous'
Listen_StartContinuous(h) ==
    /\ hpc[h] = "idle"
    /\ IF SPEECH_AVAILABLE
       THEN /\ hpc' = [hpc EXCEPT ![h] = "start_active"]
            /\ spc' = [spc EXCEPT ![h] = "check"]
            /\ UNCHANGED hres
       ELSE /\ Done(h, Resp(FALSE, "Speech recognition not available", <<>>, "", <<>>))
            /\ UNCHANGED spc
    /\ UNCHANGED << avail, starts_in_row, last_heard, flags, tokens, session, active_thread, wake_thread,
                    clock, lpc, wpc, st, hcmd, ht >>
    /\ UNCHANGED started_offline

\* listen_type == 'stop_continuous': state._stop_active.set()
Listen_StopContinuous(h) ==
    /\ hpc[h] = "idle"
    /\ stop_active' = TRUE
    /\ hpc' = [hpc EXCEPT ![h] = "stop_active"]
    /\ UNCHANGED << avail, starts_in_row, last_heard, flags, stop_wake, session, active_thread, wake_thread,
                    clock, lpc, wpc, startvars, hcmd, hres, ht >>
    /\ UNCHANGED started_offline

\* state.is_listening = False, and the response
StopActive_Flag(h) ==
    /\ hpc[h] = "stop_active"
    /\ is_listening' = FALSE
    /\ Done(h, Resp(TRUE, "Continuous listening stopped", <<>>, "", <<>>))
    /\ UNCHANGED << avail, starts_in_row, last_heard, is_wake_word_active, tokens, session, active_thread,
                    wake_thread, clock, lpc, wpc, startvars, hcmd, ht >>
    /\ UNCHANGED started_offline

\* A variant of the request below without the VOSK_AVAILABLE tests.
Listen_StartWakeWord_Unguarded(h) ==
    /\ hpc[h] = "idle"
    /\ hpc' = [hpc EXCEPT ![h] = "wake_check"]
    /\ UNCHANGED hres
    /\ UNCHANGED << avail, starts_in_row, last_heard, flags, tokens, session, active_thread,
                    wake_thread, clock, lpc, wpc, startvars, hcmd, ht >>
    /\ UNCHANGED started_offline

\* listen_type == 'start_wake_word' (and the VOSK_AVAILABLE test that
\* _start_wake_word_background repeats)
Listen_StartWakeWord(h) ==
    /\ hpc[h] = "idle"
    /\ IF VOSK_AVAILABLE
       THEN /\ hpc' = [hpc EXCEPT ![h] = "wake_check"]
            /\ UNCHANGED hres
       ELSE Done(h, Resp(FALSE, "Vosk wake-word not available", <<>>, "", <<>>))
    /\ UNCHANGED << avail, starts_in_row, last_heard, flags, tokens, session, active_thread, wake_thread,
                    clock, lpc, wpc, startvars, hcmd, ht >>
    /\ UNCHANGED started_offline

\* if state._wake_thread and state._wake_thread.is_alive(): return True
StartWake_Check(h) ==
    /\ hpc[h] = "wake_check"
    /\ IF WakeAlive(wake_thread)
       THEN Done(h, Resp(TRUE, "Wake word detection started", <<>>, "", <<>>))
       ELSE /\ hpc' = [hpc EXCEPT ![h] = "wake_clear"]
            /\ UNCHANGED hres
    /\ UNCHANGED << avail, starts_in_row, last_heard, flags, tokens, session, active_thread, wake_thread,
                    clock, lpc, wpc, startvars, hcmd, ht >>
    /\ UNCHANGED started_offline

\* state._stop_wake.clear()
StartWake_Clear(h) ==
    /\ hpc[h] = "wake_clear"
    /\ stop_wake' = FALSE
    /\ hpc' = [hpc EXCEPT ![h] = "wake_flag"]
    /\ UNCHANGED << avail, starts_in_row, last_heard, flags, stop_active, session, active_thread, wake_thread,
                    clock, lpc, wpc, startvars, hcmd, hres, ht >>
    /\ UNCHANGED started_offline

\* state.is_wake_word_active = True
StartWake_Flag(h) ==
    /\ hpc[h] = "wake_flag"
    /\ is_wake_word_active' = TRUE
    /\ hpc' = [hpc EXCEPT ![h] = "wake_create"]
    /\ UNCHANGED << avail, starts_in_row, last_heard, is_listening, tokens, session, active_thread, wake_thread,
                    clock, lpc, wpc, startvars, hcmd, hres, ht >>
    /\ UNCHANGED started_offline

\* t = threading.Thread(...); state._wake_thread = t
StartWake_Create(h) ==
    /\ hpc[h] = "wake_create"
    /\ FreeWakes # {}
    /\ LET w == Lowest(FreeWakes)
       IN  /\ wpc' = [x \in WakeIds |->
                        IF x = w THEN "created"
                        ELSE IF x = wake_thread /\ wpc[x] = "dead" THEN "unborn"
                        ELSE wpc[x]]
           /\ wake_thread' = w
           /\ ht' = [ht EXCEPT ![h] = w]
    /\ hpc' = [hpc EXCEPT ![h] = "wake_start"]
    /\ UNCHANGED << avail, starts_in_row, last_heard, flags, tokens, session, active_thread, clock, lpc,
                    startvars, hcmd, hres >>
    /\ UNCHANGED started_offline

\* t.start(); return True
StartWake_Start(h) ==
    /\ hpc[h] = "wake_start"
    /\ wpc' = [wpc EXCEPT ![ht[h]] = "entry"]
    /\ ht' = [ht EXCEPT ![h] = None]
    /\ Done(h, Resp(TRUE, "Wake word detection started", <<>>, "", <<>>))
    /\ UNCHANGED << avail, starts_in_row, last_heard, flags, tokens, session, active_thread, wake_thread,
                    clock, lpc, startvars, hcmd >>
    /\ UNCHANGED started_offline

\* listen_type == 'stop_wake_word': state._stop_wake.set()
Listen_StopWakeWord(h) ==
    /\ hpc[h] = "idle"
    /\ stop_wake' = TRUE
    /\ hpc' = [hpc EXCEPT ![h] = "stop_wake"]
    /\ UNCHANGED << avail, starts_in_row, last_heard, flags, stop_active, session, active_thread, wake_thread,
                    clock, lpc, wpc, startvars, hcmd, hres, ht >>
    /\ UNCHANGED started_offline

\* state.is_wake_word_active = False, and the response
StopWake_Flag(h) ==
    /\ hpc[h] = "stop_wake"
    /\ is_wake_word_active' = FALSE
    /\ Done(h, Resp(TRUE, "Wake word detection stopped", <<>>, "", <<>>))
    /\ UNCHANGED << avail, starts_in_row, last_heard, is_listening, tokens, session, active_thread, wake_thread,
                    clock, lpc, wpc, startvars, hcmd, ht >>
    /\ UNCHANGED started_offline

\* The request handler hands its response to Flask and is free again.
Respond(h) ==
    /\ hpc[h] = "done"
    /\ hpc' = [hpc EXCEPT ![h] = "idle"]
    /\ hres' = [hres EXCEPT ![h] = NoResp]
    /\ UNCHANGED << avail, starts_in_row, last_heard, flags, tokens, session, active_thread,
                    wake_thread, clock, lpc, wpc, startvars, hcmd, ht >>
    /\ UNCHANGED started_offline

\* The same step, counted: the start_continuous requests answered since the
\* last stop_continuous was.
Respond_Counted(h) ==
    /\ hpc[h] = "done"
    /\ hpc' = [hpc EXCEPT ![h] = "idle"]
    /\ hres' = [hres EXCEPT ![h] = NoResp]
    /\ starts_in_row' =
          CASE hres[h].response.text = "Continuous listening started" ->
                 IF starts_in_row < 2 THEN starts_in_row + 1 ELSE starts_in_row
            [] hres[h].response.text = "Continuous listening stopped" -> 0
            [] OTHER -> starts_in_row
    /\ UNCHANGED << avail, last_heard, flags, tokens, session, active_thread, wake_thread,
                    clock, lpc, wpc, startvars, hcmd, ht >>
    /\ UNCHANGED started_offline

\* ------------------------------------------------- /api/command handler
TextOutcome(rule, a, text, arg) ==
    IF a.raised
    THEN [resp |-> Resp(FALSE, "Command processing error", <<>>, rule, a.calls),
          append |-> FALSE]
    ELSE [resp |-> Resp(TRUE, text, arg, rule, a.calls), append |-> TRUE]

\* song = ...; if not song: song = " "
TextSong(cmd) == IF SongOf(cmd) # <<>> THEN SongOf(cmd) ELSE << " " >>

\* The body of handle_command after "state.is_processing = True", up to the
\* add_chat_message of the branch taken: every way it can go. resp is the
\* response the branch builds (or the error response of an except clause),
\* append whether the branch goes on to add_chat_message.
HandleCommand(cmd) ==
    LET rule == TextRule(cmd)
        kbd == Call("handle_keyboard_commands", cmd)
    IN  CASE rule = "exit" ->
               { TextOutcome(rule, [calls |-> <<>>, raised |-> FALSE],
                             "Shutting down. Goodbye, sir.", <<>>) }
          [] rule = "file_manager" ->
               { TextOutcome(rule, a, "Opening file manager, sir.", <<>>) :
                 a \in Attempts(<< Call("open_file_manager", <<>>) >>) }
          [] rule = "recycle_bin" ->
               { IF a.raised
                 THEN [resp |-> Resp(FALSE, "Failed to open recycle bin", <<>>, rule, a.calls),
                       append |-> FALSE]
                 ELSE TextOutcome(rule, a, "Opening Recycle Bin, sir.", <<>>) :
                 a \in Attempts(<< Call("Popen", <<"explorer shell:RecycleBinFolder">>) >>) }
          [] rule = "open_google" ->
               { TextOutcome(rule, a, "Opening Google, sir.", <<>>) :
                 a \in Attempts(<< Call("open_browser_and_search", <<"google">>) >>) }
          [] rule = "open_youtube" ->
               { TextOutcome(rule, a, "Opening YouTube, sir.", <<>>) :
                 a \in Attempts(<< Call("open_browser_and_search", <<"youtube">>) >>) }
          [] rule = "play" ->
               { TextOutcome(rule, a, "Searching YouTube for",
                             IF Strip(TextSong(cmd)) # <<>> THEN Strip(TextSong(cmd))
                             ELSE <<"your song">>) :
                 a \in Attempts(<< Call("play_song_on_youtube", TextSong(cmd)) >>) }
          [] rule = "close" ->
               { TextOutcome(rule, a, "Attempting to close", AppNameOf(cmd)) :
                 a \in Attempts(<< Call("close_window", AppNameOf(cmd)) >>) }
          [] rule = "keyboard" ->
               { TextOutcome(rule, a, "Command executed, sir.", <<>>) :
                 a \in Attempts(<< kbd >>) }
          [] rule = "dev_build" ->
               { TextOutcome(rule, IF a.raised THEN a
                                   ELSE [calls |-> a.calls \o << Call("ai_to_ai_problem_solver", cmd) >>,
                                         raised |-> FALSE],
                             "I'll help you with that, sir. Opening the development environment.",
                             <<>>) :
                 a \in Attempts(<< kbd >>) }
          [] rule = "time" ->
               { TextOutcome(rule, a, "The current time is", <<>>) :
                 a \in Attempts(<< kbd >>) }
          [] OTHER ->
               { TextOutcome(rule, a, "<reply>", cmd) :
                 a \in Attempts(<< kbd, Call("ask_billion", cmd) >>) }

\* command = data.get('command', '').lower().strip()
\* if not command: return ...          state.is_processing = True
Command_Begin(h, text) ==
    /\ hpc[h] = "idle"
    /\ LET command == Strip(LowerAll(text))
       IN  IF command = <<>>
           THEN /\ hpc' = [hpc EXCEPT ![h] = "finally"]
                /\ hres' = [hres EXCEPT ![h] =
                       Resp(FALSE, "No command provided", <<>>, "empty", <<>>)]
                /\ UNCHANGED << is_processing, hcmd >>
           ELSE /\ hpc' = [hpc EXCEPT ![h] = "dispatch"]
                /\ hcmd' = [hcmd EXCEPT ![h] = command]
                /\ is_processing' = TRUE
                /\ UNCHANGED hres
    /\ UNCHANGED << avail, starts_in_row, last_heard, flags, tokens, chat_history, system_status,
                    active_thread, wake_thread, clock, lpc, wpc, startvars, ht >>
    /\ UNCHANGED started_offline

\* The branch of handle_command the command selects, with its adapter calls.
Command_Dispatch(h) ==
    /\ hpc[h] = "dispatch"
    /\ \E o \in HandleCommand(hcmd[h]) :
          /\ hres' = [hres EXCEPT ![h] = o.resp]
          /\ hpc' = [hpc EXCEPT ![h] = IF o.append THEN "append" ELSE "finally"]
    /\ hcmd' = [hcmd EXCEPT ![h] = <<>>]
    /\ UNCHANGED << avail, starts_in_row, last_heard, flags, tokens, session, active_thread, wake_thread,
                    clock, lpc, wpc, startvars, ht >>
    /\ UNCHANGED started_offline

\* add_chat_message: timestamp = now(); self.chat_history.append({...})
Entry(sender, message, now) ==
    [sender |-> sender, message |-> message, timestamp |-> now]

AddEntry(history, e) == Append(history, e)

\* A variant of the length test below that is off by one.
NeedsEvict_Late(history) == Len(history) > HistoryLimit + 1

\* if len(self.chat_history) > 100:
NeedsEvict(history) == Len(history) > HistoryLimit

\* self.chat_history.pop(0)
Evict(history) == Tail(history)

Chat_Append(h) ==
    /\ hpc[h] = "append"
    /\ chat_history' = AddEntry(chat_history, Entry("JARVIS", hres[h].response, clock))
    /\ hpc' = [hpc EXCEPT ![h] = "check"]
    /\ UNCHANGED << avail, starts_in_row, last_heard, flags, tokens, is_processing, system_status,
                    active_thread, wake_thread, clock, lpc, wpc, startvars,
                    hcmd, hres, ht >>
    /\ UNCHANGED started_offline

\* Where handle_command goes on after add_chat_message returns.
AfterAdd(h) == IF hres[h].rule = "exit" THEN "offline" ELSE "finally"

Chat_Check(h) ==
    /\ hpc[h] = "check"
    /\ hpc' = [hpc EXCEPT ![h] = IF NeedsEvict(chat_history) THEN "pop" ELSE AfterAdd(h)]
    /\ UNCHANGED << avail, starts_in_row, last_heard, flags, tokens, session, active_thread, wake_thread,
                    clock, lpc, wpc, startvars, hcmd, hres, ht >>
    /\ UNCHANGED started_offline

\* pop(0); on a list emptied meanwhile it raises IndexError, which the
\* except clause around the branch turns into an error response.
Chat_Pop(h) ==
    /\ hpc[h] = "pop"
    /\ IF chat_history = <<>>
       THEN /\ hres' = [hres EXCEPT ![h] =
                   Resp(FALSE, IF hres[h].rule = "recycle_bin"
                               THEN "Failed to open recycle bin"
                               ELSE "Command processing error",
                        <<>>, hres[h].rule, hres[h].calls)]
            /\ hpc' = [hpc EXCEPT ![h] = "finally"]
            /\ UNCHANGED chat_history
       ELSE /\ chat_history' = Evict(chat_history)
            /\ hpc' = [hpc EXCEPT ![h] = AfterAdd(h)]
            /\ UNCHANGED hres
    /\ UNCHANGED << avail, starts_in_row, last_heard, flags, tokens, is_processing, system_status,
                    active_thread, wake_thread, clock, lpc, wpc, startvars,
                    hcmd, ht >>
    /\ UNCHANGED started_offline

\* state.system_status = "OFFLINE"     (the exit branch)
Command_Offline(h) ==
    /\ hpc[h] = "offline"
    /\ system_status' = "OFFLINE"
    /\ hpc' = [hpc EXCEPT ![h] = "finally"]
    /\ UNCHANGED << avail, starts_in_row, last_heard, flags, tokens, is_processing, chat_history,
                    active_thread, wake_thread, clock, lpc, wpc, startvars,
                    hcmd, hres, ht >>
    /\ UNCHANGED started_offline

\* finally: state.is_processing = False; the response hres[h] is returned
\* and the handler is free again.
Command_Finally(h) ==
    /\ hpc[h] = "finally"
    /\ is_processing' = FALSE
    /\ hpc' = [hpc EXCEPT ![h] = "idle"]
    /\ hres' = [hres EXCEPT ![h] = NoResp]
    /\ UNCHANGED << avail, starts_in_row, last_heard, flags, tokens, chat_history, system_status,
                    active_thread, wake_thread, clock, lpc, wpc, startvars,
                    hcmd, ht >>
    /\ UNCHANGED started_offline

\* /api/clear-history: state.chat_history.clear()
Clear_History(h) ==
    /\ hpc[h] = "idle"
    /\ chat_history' = <<>>
    /\ UNCHANGED << avail, starts_in_row, last_heard, flags, tokens, is_processing, system_status,
                    active_thread, wake_thread, clock, lpc, wpc, startvars,
                    handlervars >>
    /\ UNCHANGED started_offline

\* A second of wall-clock time passes.
Tick ==
    /\ clock < MaxClock
    /\ clock' = clock + 1
    /\ UNCHANGED << avail, starts_in_row, last_heard, flags, tokens, session, active_thread, wake_thread,
                    lpc, wpc, startvars, handlervars >>
    /\ UNCHANGED started_offline

\* ------------------------------------------------------- specifications
\* What the microphone may deliver.
VoiceUtterances ==
    { <<"GOODBYE">>,
      <<"open", " ", "google">>,
      <<"tell", " ", "me", " ", "a", " ", "joke">> }

\* What the text box may deliver.
TextUtterances ==
    { <<"open", " ", "google", " ", "and", " ", "exit">>,
      <<"open", " ", "google">> }

\* The one command the history specification submits, over and over.
HistoryUtterances == { <<"what", " ", "time">> }

\* Flask hands a new request to any free handler thread; the threads are
\* interchangeable, so it is taken to be the lowest-numbered free one.
Free(h) == hpc[h] = "idle" /\ \A g \in Handlers : g < h => hpc[g] # "idle"

\* The handler of the specifications in which requests come one at a time.
MainHandler == Lowest(Handlers)

StartActive(c) ==
    \/ StartActive_Check(c)
    \/ StartActive_Clear(c)
    \/ StartActive_Flag(c)
    \/ StartActive_Create(c)
    \/ StartActive_Start(c)

ActiveLoop(t) ==
    \/ Loop_Entry(t)
    \/ Loop_While(t)
    \/ \E u \in VoiceUtterances : Loop_Dispatch(t, u)
    \/ Loop_Handled(t)
    \/ Loop_Timeout(t)
    \/ \E speakRaises \in BOOLEAN : Loop_Unknown(t, speakRaises)
    \/ Loop_RequestError(t)
    \/ Loop_Uncaught(t)

WakeLoop(w) ==
    \/ Wake_Loaded(w)
    \/ Wake_LoadFailed(w)
    \/ Wake_While(w)
    \/ \E spoken \in WakeSpoken : Wake_Heard(w, spoken)
    \/ Wake_StreamFailed(w)
    \/ Wake_Sleep(w)

ActiveRequest(h) ==
    \/ Free(h) /\ Listen_StartContinuous(h)
    \/ Free(h) /\ Listen_StopContinuous(h)
    \/ StopActive_Flag(h)
    \/ Respond(h)

WakeRequest(h) ==
    \/ Free(h) /\ Listen_StartWakeWord(h)
    \/ StartWake_Check(h)
    \/ StartWake_Clear(h)
    \/ StartWake_Flag(h)
    \/ StartWake_Create(h)
    \/ StartWake_Start(h)
    \/ Free(h) /\ Listen_StopWakeWord(h)
    \/ StopWake_Flag(h)

\* handle_command once it has begun, up to its finally clause, with the
\* append and the length test of add_chat_message.
CommandSteps(h) ==
    \/ Command_Dispatch(h)
    \/ Chat_Append(h)
    \/ Chat_Check(h)
    \/ Command_Finally(h)

\* SpecMode: the whole program with the control surface sending one request
\* at a time (any /api/listen request, /api/command, /api/clear-history),
\* served by one handler thread, while the active-listening loops and the
\* wake-word loop run concurrently with it and with each other. Commands are
\* submitted while the history is shorter than MaxChat.
NextMode ==
    \/ \E c \in {MainHandler} \cup {WakeCaller(w) : w \in WakeIds} : StartActive(c)
    \/ \E t \in ActiveIds : ActiveLoop(t)
    \/ \E w \in WakeIds : WakeLoop(w)
    \/ ActiveRequest(MainHandler)
    \/ WakeRequest(MainHandler)
    \/ CommandSteps(MainHandler)
    \/ Command_Offline(MainHandler)
    \/ \E text \in TextUtterances :
          Len(chat_history) < MaxChat /\ Command_Begin(MainHandler, text)
    \/ Clear_History(MainHandler)

SpecMode == Init /\ [][NextMode]_vars

\* SpecRace: every handler thread may be inside a start_continuous or
\* stop_continuous request at the same time as the others, with the
\* active-listening loops they start.
NextRace ==
    \/ \E h \in Handlers : StartActive(h)
    \/ \E t \in ActiveIds : ActiveLoop(t)
    \/ \E h \in Handlers : ActiveRequest(h)

SpecRace == Init /\ [][NextRace]_vars

\* SpecSeq: one caller issuing start_continuous and stop_continuous requests
\* one after the other, and the active-listening loop it starts. The
\* specification counts the start_continuous requests answered in a row.
NextSeq ==
    \/ StartActive(MainHandler)
    \/ \E t \in ActiveIds : ActiveLoop(t)
    \/ Listen_StartContinuous(MainHandler)
    \/ Listen_StopContinuous(MainHandler)
    \/ StopActive_Flag(MainHandler)
    \/ Respond_Counted(MainHandler)

SpecSeq == Init /\ [][NextSeq]_vars

\* SpecHist: every handler thread may be inside /api/command at the same
\* time as the others, /api/clear-history requests come in between, and
\* time passes; the history grows past HistoryLimit.
NextHist ==
    \/ \E h \in Handlers, text \in HistoryUtterances : Free(h) /\ Command_Begin(h, text)
    \/ \E h \in Handlers : CommandSteps(h)
    \/ \E h \in Handlers : Chat_Pop(h)
    \/ \E h \in Handlers : Free(h) /\ Clear_History(h)
    \/ Tick

InitHist == Init /\ SPEECH_AVAILABLE /\ VOSK_AVAILABLE

SpecHist == InitHist /\ [][NextHist]_vars
\* What SpecDispatch has said to the microphone and typed into the text box.
DispatchUtterances ==
    { <<"tell", " ", "me", " ", "a", " ", "joke">>,
      <<"what", " ", "time">>,
      <<"wait">>,
      <<"i", " ", "want", " ", "to", " ", "build", " ", "and", " ", "open", " ", "google">>,
      <<"close", " ">>,
      <<"close", " ", "notepad">> }

\* SpecDispatch: the same utterances dispatched on the voice path (by the
\* active-listening loop one start_continuous request starts) and on the
\* text path (by /api/command, one request at a time), with what the voice
\* path did kept on record.
NextDispatch ==
    \/ Listen_StartContinuous(MainHandler)
    \/ StartActive(MainHandler)
    \/ Respond(MainHandler)
    \/ \E t \in ActiveIds :
          \/ Loop_Entry(t)
          \/ Loop_While(t)
          \/ \E u \in DispatchUtterances : Loop_Dispatch_Recorded(t, u)
          \/ Loop_Handled(t)
          \/ Loop_Timeout(t)
          \/ Loop_Uncaught(t)
    \/ \E text \in DispatchUtterances :
          Len(chat_history) < MaxChat /\ Command_Begin(MainHandler, text)
    \/ CommandSteps(MainHandler)
    \/ Clear_History(MainHandler)

SpecDispatch == Init /\ [][NextDispatch]_vars

\* SpecStop: one caller issuing start_continuous and stop_continuous
\* requests one after the other, with no start_continuous once the
\* cancellation token is set. Every loop thread that can take a step
\* eventually takes one: the scheduler runs it, and r.listen(source,
\* timeout=8, phrase_time_limit=10) and recognize_google return.
NextStop ==
    \/ ~stop_active /\ Listen_StartContinuous(MainHandler)
    \/ StartActive(MainHandler)
    \/ Listen_StopContinuous(MainHandler)
    \/ StopActive_Flag(MainHandler)
    \/ Respond(MainHandler)
    \/ \E t \in ActiveIds : ActiveLoop(t)

SpecStop ==
    Init /\ [][NextStop]_vars /\ \A t \in ActiveIds : WF_vars(ActiveLoop(t))

\* The handler thread that serves a request arriving while MainHandler is busy.
SecondHandler == Lowest(Handlers \ {MainHandler})

\* SpecPair: one caller issuing start_continuous requests, served by
\* MainHandler, and another issuing stop_continuous requests at the same
\* time, served by SecondHandler, with the loops the starts create.
NextPair ==
    \/ Listen_StartContinuous(MainHandler)
    \/ StartActive(MainHandler)
    \/ Listen_StopContinuous(SecondHandler)
    \/ StopActive_Flag(SecondHandler)
    \/ \E h \in {MainHandler, SecondHandler} : Respond(h)
    \/ \E t \in ActiveIds : ActiveLoop(t)

SpecPair == Init /\ [][NextPair]_vars

\* ---------------------------------------------------------------- claims
AliveLoops == { t \in ActiveIds : ActiveAlive(t) }
AliveWakes == { w \in WakeIds : WakeAlive(w) }

\* The handler has answered a start_continuous request and not yet handed
\* the response over.
StartAnswered(h) ==
    hpc[h] = "done" /\ hres[h].response.text = "Continuous listening started"

\* The caller is inside _start_active_mode_background, past its liveness test.
PastCheck(c) == spc[c] \in {"clear", "flag", "create", "start"}

\* C1: the active-listening flag and the wake-word flag are never both true.
\* (SpecMode)
C1_ModesExclusive == ~(is_listening /\ is_wake_word_active)

\* C2: under concurrent callers of the two start operations, at most one
\* active-listening thread and at most one wake-word thread are alive at any
\* time. (SpecRace)
C2_OneLoopEach == Cardinality(AliveLoops) <= 1 /\ Cardinality(AliveWakes) <= 1

C4_NeverTwoLoops ==
    \A t1, t2 \in ActiveIds : ActiveAlive(t1) /\ ActiveAlive(t2) => t1 = t2

\* C4 witness: the start_continuous that follows a stop_continuous has been
\* answered while the old loop is still blocked in recognition, the token
\* set and the flag cleared by the stop.
C4_Witness ==
    /\ starts_in_row = 0
    /\ StartAnswered(MainHandler)
    /\ stop_active
    /\ ~is_listening
    /\ active_thread # None
    /\ lpc[active_thread] = "listen"

\* C5: once system_status is "OFFLINE", a loop that comes out of its
\* blocking call (recognition in _active_mode_loop, q.get() in
\* _wake_word_loop) does not carry on to another iteration or to starting
\* active mode. (SpecMode)
C5_LoopsStopWhenOffline ==
    [][ system_status = "OFFLINE" =>
          /\ \A t \in ActiveIds : lpc[t] = "listen" => lpc'[t] # "while"
          /\ \A w \in WakeIds : wpc[w] = "get" => wpc'[w] \notin {"while", "starting"} ]_vars

\* C6: a loop started while system_status is "OFFLINE" ends on its first
\* iteration and never listens. (SpecMode)
C6_OfflineStartNeverListens == \A t \in started_offline : lpc[t] # "listen"

\* C7: once system_status is "OFFLINE", /api/command accepts no command: no
\* request gets as far as setting is_processing and dispatching. (SpecMode)
C7_OfflineAcceptsNothing ==
    [][ system_status = "OFFLINE" =>
          \A h \in Handlers : hpc[h] = "idle" => hpc'[h] # "dispatch" ]_vars

\* C8: the active loop's dispatch of an utterance that contains an exit
\* phrase always sets system_status to "OFFLINE". (SpecMode)
C8_ExitSetsOffline ==
    [][ \A t \in ActiveIds :
          \A u \in { x \in VoiceUtterances : IsExit(LowerAll(x)) } :
             Loop_Dispatch(t, u) => system_status' = "OFFLINE" ]_vars

\* No handler is between the append of add_chat_message and its return.
AppendsComplete == \A h \in Handlers : hpc[h] \notin {"check", "pop"}

\* C9: once every append has completed, chat_history holds at most
\* HistoryLimit entries; an append adds the entry at the end; an append that
\* leaves more than HistoryLimit entries goes on to evict; and an eviction
\* removes the oldest entry only, keeping the others in order. (SpecHist)
C9_HistoryBounded ==
    /\ [](AppendsComplete => Len(chat_history) <= HistoryLimit)
    /\ [][ \A h \in Handlers :
            /\ (hpc[h] = "append" /\ hpc'[h] = "check")
                  => /\ Len(chat_history') = Len(chat_history) + 1
                     /\ SubSeq(chat_history', 1, Len(chat_history)) = chat_history
            /\ (hpc[h] = "check" /\ hpc'[h] # "check" /\ Len(chat_history) > HistoryLimit)
                  => hpc'[h] = "pop"
            /\ (hpc[h] = "pop" /\ hpc'[h] # "pop" /\ chat_history # <<>>)
                  => /\ Len(chat_history') = Len(chat_history) - 1
                     /\ \A i \in 1..Len(chat_history') :
                           chat_history'[i] = chat_history[i + 1] ]_vars

\* C9 witness: an append to a history of HistoryLimit entries has been made
\* and its eviction is due.
C9_Witness ==
    \E h \in Handlers : hpc[h] = "pop" /\ Len(chat_history) = HistoryLimit + 1

\* C10: no active-listening thread is ever left by an exception that an
\* adapter raised during a dispatch. (SpecMode)
C10_LoopSurvivesFailure == \A t \in ActiveIds : lpc[t] # "raised"

\* The handler is inside handle_command with a non-empty command.
InFlight(h) == hpc[h] \in {"dispatch", "append", "check", "pop", "offline", "finally"}

\* C11: is_processing is true whenever some /api/command dispatch is in
\* flight, under concurrent requests. (SpecHist)
C11_ProcessingWhileInFlight == (\E h \in Handlers : InFlight(h)) => is_processing

\* C12: every dispatch the active loop completes with
\* _handle_parsed_command returning True appends one entry to chat_history.
\* (SpecDispatch)
C12_VoiceDispatchRecorded ==
    [][ \A t \in ActiveIds :
          (lpc[t] = "listen" /\ lpc'[t] = "handled")
             => Len(chat_history') = Len(chat_history) + 1 ]_vars

\* C13: for the same utterance handle_command takes the branch that
\* _handle_parsed_command takes, whose order is Exit, Standby, file manager,
\* recycle bin, developer build, open google, open youtube, play, close,
\* keyboard, fallback. (SpecDispatch)
C13_SameRuleOnBothPaths ==
    [][ \A h \in Handlers :
          (hpc[h] = "dispatch" /\ hpc'[h] # "dispatch")
             => hres'[h].rule = VoiceRule(hcmd[h]) ]_vars

\* The calls of adapter fn with argument arg among calls.
CallsOf(calls, fn, arg) ==
    { i \in DOMAIN calls : calls[i].fn = fn /\ calls[i].arg = arg }

\* C14: a /api/command dispatch that succeeds on an utterance matching none
\* of the rules Exit .. keyboard calls ask_billion exactly once with that
\* text and returns its reply. (SpecDispatch)
C14_UnclassifiedGoesToFallback ==
    [][ \A h \in Handlers :
          ( /\ hpc[h] = "dispatch"
            /\ hpc'[h] # "dispatch"
            /\ hres'[h].success
            /\ VoiceRule(hcmd[h]) = "fallback" )
          => /\ Cardinality(CallsOf(hres'[h].calls, "ask_billion", hcmd[h])) = 1
             /\ hres'[h].response.text = "<reply>" ]_vars

\* C16: the active loop's dispatch of "close " with no application name
\* calls neither close_window, handle_keyboard_commands nor ask_billion.
\* (SpecDispatch)
C16_CloseWithoutNameCallsNothing ==
    last_heard.command = <<"close", " ">> =>
       \A i \in DOMAIN last_heard.outcome.calls :
          last_heard.outcome.calls[i].fn
             \notin {"close_window", "handle_keyboard_commands", "ask_billion"}

\* The handler has answered a request with a failure.
Refused(h, text) ==
    hpc[h] = "done" /\ ~hres[h].success /\ hres[h].response.text = text

C17_StartLeavesLoopRunning ==
    [][ (spc[MainHandler] # "none" /\ spc'[MainHandler] = "none")
          => (ActiveAlive(active_thread) /\ ~stop_active /\ is_listening)' ]_vars

\* The handler has answered a stop_continuous request and not yet handed
\* the response over.
StopAnswered(h) ==
    hpc[h] = "done" /\ hres[h].response.text = "Continuous listening stopped"

\* C18: the step that sets the cancellation token for a stop_continuous
\* request moves no loop thread, and once the token is set, with no later
\* start, every loop thread eventually ends. (SpecStop)
C18_StopTakesEffect ==
    /\ [][ (hpc[MainHandler] = "idle" /\ hpc'[MainHandler] = "stop_active")
            => (stop_active' /\ lpc' = lpc) ]_vars
    /\ (stop_active ~> (AliveLoops = {}))

\* C18 witness: a stop_continuous request has been answered while the loop
\* is still blocked in recognition.
C18_Witness ==
    /\ StopAnswered(MainHandler)
    /\ stop_active
    /\ active_thread # None
    /\ lpc[active_thread] = "listen"

\* C19: a recognition that raises sr.UnknownValueError leaves the loop
\* thread running, on its way to the next listen cycle. (SpecSeq)
C19_UnintelligibleContinues ==
    [][ \A t \in ActiveIds :
          (Loop_Unknown(t, TRUE) \/ Loop_Unknown(t, FALSE)) => lpc'[t] = "while" ]_vars

\* C20: whenever is_listening is true and no caller is inside
\* _start_active_mode_background, an active-listening loop is alive.
\* (SpecSeq)
C20_ModeNeverStale ==
    (is_listening /\ \A c \in Callers : spc[c] = "none") => AliveLoops # {}

\* No request handler is inside a start_continuous or stop_continuous call.
CallsReturned ==
    \A h \in Handlers : hpc[h] \notin {"start_active", "stop_active"} /\ spc[h] = "none"

\* C21: once a start_continuous call and a concurrent stop_continuous call
\* have both returned, no loop thread is alive with the cancellation token
\* clear while is_listening is false. (SpecPair)
C21_StartStopConsistent ==
    CallsReturned => ~(AliveLoops # {} /\ ~stop_active /\ ~is_listening)
====
